---- MODULE Spec2Model ----
(***************************************************************************)
(* Token lifecycle of the Spotify token broker.                            *)
(*                                                                         *)
(* The repository holds four copies of the server:                         *)
(*   "backend"   src/backend/server.js  (middleware, MongoDB, /status)     *)
(*   "part_000"  src/unnamed/part_000   (checkAndRefreshToken, MongoDB)    *)
(*   "part_001"  src/unnamed/part_001   (checkAndRefreshToken, no store)   *)
(*   "part_002"  src/unnamed/part_002   (middleware, load only, no login)  *)
(* One of them runs; `variant` says which.  A handler runs atomically from *)
(* one await to the next (single-threaded event loop), so every action is  *)
(* one such run: the arrival of a request or the completion of the I/O a   *)
(* handler is awaiting.                                                    *)
(*                                                                         *)
(* Time is in milliseconds (Date.now()).  Tokens are numbered in the order *)
(* the provider issues them; 0 is an absent (undefined) field.             *)
(***************************************************************************)
EXTENDS Integers, Sequences, FiniteSets, TLC

\* ---------------------------------------------------------------- bounds
MaxReqs == 2        \* requests being handled at the same time
MaxTok == 3         \* tokens the provider issues in a run
MaxTicks == 1       \* clock steps in a run
MaxStarted == 2     \* requests received in a run
MaxLen == 2         \* longest string asked of generateRandomString on its own

\* ------------------------------------------------------ program constants
REFRESH_SKEW == 60000                  \* ms before expiry at which a refresh is due
STATE_LENGTH == 16                     \* generateRandomString(16)

Variants == {"backend", "part_000", "part_001", "part_002"}

\* which copies connect to MongoDB (part_001 keeps tokens in memory only)
HasStore(v) == v # "part_001"
\* which copies call saveTokenToDB after a pair changes
SavesTokens(v) == v \in {"backend", "part_000"}
\* which copies define /login, /callback and /api/spotify/status
HasLoginRoutes(v) == v # "part_002"

\* JS null / undefined for an object-valued variable
NULL == [null |-> TRUE]

TickMs == REFRESH_SKEW
MaxTime == MaxTicks * TickMs
\* expires_in values (seconds) the provider may answer with
ExpiresInChoices == {60, 120}
\* expires_at of a pair a previous run of the process left in the store
StoredExpiry == {REFRESH_SKEW, 2 * REFRESH_SKEW}

Reqs == 1..MaxReqs

VARIABLES
  variant,        \* which copy of the server runs
  now,            \* Date.now()
  tokenData,      \* let tokenData: NULL or [access_token, refresh_token, expires_at]
  db,             \* the document { _id: TOKEN_ID }.tokenData in the store, or NULL
  loadPending,    \* the startup load has not resolved yet
  cookie,         \* the browser's spotify_auth_state cookie, <<>> when absent
  issued,         \* number of tokens the provider has issued
  req,            \* the requests being handled
  refreshFailed,  \* a refresh exchange failed and no login succeeded since
  uncaught,       \* an exception escaped a handler (unhandled rejection)
  started,        \* number of requests received so far
  last,           \* the request that finished last, with its response
  nonceUsed,      \* history: a callback matched the cookie's state since the last /login
  restarted,      \* history: the process was stopped and started again
  call,           \* the helper applied last, with its arguments (NULL: none yet)
  result          \* what it returned

vars == <<variant, now, tokenData, db, loadPending, cookie, issued, req,
          refreshFailed, uncaught, started, last, nonceUsed, restarted,
          call, result>>

\* ------------------------------------------------------------- helpers

possible ==
  <<"A","B","C","D","E","F","G","H","I","J","K","L","M","N","O","P","Q","R",
    "S","T","U","V","W","X","Y","Z","a","b","c","d","e","f","g","h","i","j",
    "k","l","m","n","o","p","q","r","s","t","u","v","w","x","y","z","0","1",
    "2","3","4","5","6","7","8","9">>

\* the modulus 64 in place of possible.length: possible[62] and possible[63]
\* are undefined and join('') leaves them out
generateRandomString_mod64(bytes) ==
  LET kept == SelectSeq(bytes, LAMBDA b : b % 64 < Len(possible))
  IN  [i \in 1..Len(kept) |-> possible[(kept[i] % 64) + 1]]

\* bytes: the result of crypto.randomBytes(length)
generateRandomString(bytes) ==
  [i \in 1..Len(bytes) |-> possible[(bytes[i] % Len(possible)) + 1]]

\* a sample of what crypto.randomBytes(length) may return
SampleBytes == {0, 255}
RandomBytes(length) == {[i \in 1..length |-> b] : b \in SampleBytes}

\* part_000, part_001: possible.charAt(Math.floor(Math.random() * possible.length)),
\* draws: the values of Math.floor(Math.random() * possible.length)
generateRandomString_p0(draws) ==
  [i \in 1..Len(draws) |-> possible[draws[i] + 1]]

\* a sample of the sequences of Math.floor(Math.random() * 62)
SampleDraws == {0, 61}
RandomDraws(length) == {[i \in 1..length |-> d] : d \in SampleDraws}

\* the state values /login can hand out
Nonces ==
  {generateRandomString(bs) : bs \in RandomBytes(STATE_LENGTH)} \cup
  {generateRandomString_p0(ds) : ds \in RandomDraws(STATE_LENGTH)}

\* req.query.state: absent (<<>>) or any string a client may send
StateParams == Nonces \cup {<<>>}

\* A request slot.  kind, pc and pair are the handler's position and locals;
\* resp, body are its response; bearer is the access token of its upstream
\* call and sentRt the refresh token of its refresh exchange (0: none sent).
\* The rest records what the request met, for the properties:
\*   state, stored  the state parameter and the cookie /callback received
\*   start          the pair held when the token check began
\*   startFresh     that pair was more than REFRESH_SKEW away from expiry
\*   afterFail      the request arrived after a failed refresh exchange
\*   got, respRt    access and refresh token of the token endpoint's answer
\*   due            arrival time of that answer plus expires_in seconds
IdleReq ==
  [kind |-> "none", pc |-> "idle", resp |-> "none", body |-> NULL,
   bearer |-> 0, sentRt |-> 0, pair |-> NULL,
   state |-> <<>>, stored |-> <<>>,
   start |-> NULL, startFresh |-> FALSE, afterFail |-> FALSE,
   got |-> 0, respRt |-> 0, due |-> 0]

Free(r) == req[r].pc = "idle"
\* a new request takes the lowest free slot
Slot(r) == started < MaxStarted /\ Free(r) /\ \A s \in Reqs : s < r => ~Free(s)

\* q meets the held pair td when its token check begins
Held(q, td) ==
  [q EXCEPT !.start = td,
            !.startFresh = (td # NULL /\ now < td.expires_at - REFRESH_SKEW)]

NewReq(kind) ==
  Held([IdleReq EXCEPT !.kind = kind, !.afterFail = refreshFailed], tokenData)

Respond(q, code, body) ==
  [q EXCEPT !.pc = "done", !.resp = code, !.body = body]

\* request r goes on as q; a request that got its response (or whose handler
\* died) leaves its slot and becomes the last finished request
Step(r, q) ==
  /\ req' = [req EXCEPT ![r] = IF q.pc \in {"done", "hung"} THEN IdleReq ELSE q]
  /\ last' = IF q.pc \in {"done", "hung"} THEN q ELSE last

\* the comparison turned round
Expiring_flipped(td) == now <= td.expires_at - REFRESH_SKEW

\* Date.now() >= tokenData.expires_at - 60000
Expiring(td) == now >= td.expires_at - REFRESH_SKEW

\* ---------------------------------------------------------------- store

\* loadTokenFromDB: the stored pair, or null when there is no document or
\* the store cannot be reached
loadTokenFromDB(ok) == IF ok THEN db ELSE NULL

\* the upsert storing the access token only
saveTokenToDB_accessOnly(tokens, ok) ==
  IF ok THEN [tokens EXCEPT !.refresh_token = 0] ELSE db

\* saveTokenToDB: upsert, errors are logged and swallowed
saveTokenToDB(tokens, ok) == IF ok THEN tokens ELSE db

Init ==
  /\ variant \in Variants
  /\ now = 0
  /\ tokenData = NULL
  /\ \/ db = NULL /\ issued = 0
     \/ /\ HasStore(variant)
        /\ \E e \in StoredExpiry :
             db = [access_token |-> 1, refresh_token |-> 1, expires_at |-> e]
        /\ issued = 1
  /\ loadPending = HasStore(variant)
  /\ cookie = <<>>
  /\ req = [r \in Reqs |-> IdleReq]
  /\ refreshFailed = FALSE
  /\ uncaught = FALSE
  /\ started = 0
  /\ last = IdleReq
  /\ nonceUsed = FALSE
  /\ restarted = FALSE
  /\ call = NULL
  /\ result = NULL

\* ---------------------------------------------------------------- clock

Tick ==
  /\ now < MaxTime
  /\ now' = now + TickMs
  /\ UNCHANGED <<nonceUsed, variant, call, result, restarted, tokenData, db, loadPending, cookie, issued, req,
                 refreshFailed, uncaught, started, last>>

\* ------------------------------------------------------- startup load

\* (async () => { tokenData = await loadTokenFromDB(); ... })()
StartupLoad ==
  /\ loadPending
  /\ \E ok \in BOOLEAN : tokenData' = loadTokenFromDB(ok)
  /\ loadPending' = FALSE
  /\ UNCHANGED <<nonceUsed, variant, call, result, restarted, now, db, cookie, issued, req, refreshFailed, uncaught, started, last>>

\* ---------------------------------------------------- token endpoint

\* response.data of a successful exchange: a fresh access token, a fresh
\* refresh token unless the response omits it, its validity in seconds
TokenResponse(withRefresh, e) ==
  [access_token |-> issued + 1,
   refresh_token |-> IF withRefresh THEN issued + 1 ELSE 0,
   expires_in |-> e]

\* ------------------------------------------------------------ /login

\* app.get('/login'): a fresh state in the cookie, redirect to the provider
Login ==
  /\ HasLoginRoutes(variant)
  /\ IF variant = "backend"
       THEN \E bs \in RandomBytes(STATE_LENGTH) : cookie' = generateRandomString(bs)
       ELSE \E ds \in RandomDraws(STATE_LENGTH) : cookie' = generateRandomString_p0(ds)
  /\ nonceUsed' = FALSE
  /\ UNCHANGED <<variant, call, result, restarted, now, tokenData, db, loadPending, issued, req,
                 refreshFailed, uncaught, started, last>>

\* ---------------------------------------------------------- /callback

\* the catch answering as the success path does
ExchangeFailedRedirect_success == "redirect?success=true"

\* res.redirect of the catch of /callback
ExchangeFailedRedirect ==
  IF variant = "backend" THEN "redirect?error=token_exchange_failed"
  ELSE "redirect?error=invalid_token"

\* the comparison with the cookie left out
StateMismatch_nullOnly(state, storedState) == state = <<>>

\* state === null || state !== storedState
StateMismatch(state, storedState) == state = <<>> \/ state # storedState

\* app.get('/callback') up to the token exchange: the state check
CallbackRequest(r) ==
  /\ HasLoginRoutes(variant)
  /\ Slot(r)
  /\ \E state \in StateParams :
       LET storedState == cookie
           q == [NewReq("callback") EXCEPT !.state = state, !.stored = storedState]
       IN  /\ Step(r,
                     IF StateMismatch(state, storedState)
                     THEN Respond(q, "redirect?error=state_mismatch", NULL)
                     ELSE [q EXCEPT !.pc = "exchanging"])
           /\ nonceUsed' = (nonceUsed \/ ~StateMismatch(state, storedState))
  /\ UNCHANGED <<variant, call, result, restarted, now, tokenData, db, loadPending, cookie, issued,
                 refreshFailed, uncaught>>
  /\ started' = started + 1

\* the pair /callback builds from the provider's answer
CallbackTokens(data) ==
  [access_token |-> data.access_token,
   refresh_token |-> data.refresh_token,
   expires_at |-> now + data.expires_in * 1000]

\* the token exchange of /callback answers: install and save, or the catch.
\* The response carries the clearCookie header set before the exchange.
CallbackTokenResponse(r) ==
  /\ req[r].kind = "callback" /\ req[r].pc = "exchanging"
  /\ \/ /\ issued < MaxTok
        /\ \E e \in ExpiresInChoices :
             LET data == TokenResponse(TRUE, e)
                 newTokens == CallbackTokens(data)
                 q == [req[r] EXCEPT !.got = data.access_token, !.pair = newTokens,
                                     !.respRt = data.refresh_token,
                                     !.due = now + e * 1000]
             IN  /\ tokenData' = newTokens
                 /\ IF SavesTokens(variant)
                    THEN /\ Step(r, [q EXCEPT !.pc = "saving"])
                         /\ cookie' = cookie
                    ELSE /\ Step(r,
                                      Respond(q, "redirect?success=true", NULL))
                         /\ cookie' = <<>>
        /\ issued' = issued + 1
        /\ refreshFailed' = FALSE
     \/ /\ Step(r, Respond(req[r], ExchangeFailedRedirect, NULL))
        /\ cookie' = <<>>
        /\ UNCHANGED <<tokenData, issued, refreshFailed, started>>
  /\ UNCHANGED <<nonceUsed, variant, call, result, restarted, now, db, loadPending, uncaught, started>>

\* saveTokenToDB without its own catch: a failed save lands in the catch of
\* /callback
CallbackSaved_propagates(r) ==
  /\ req[r].kind = "callback" /\ req[r].pc = "saving"
  /\ \E ok \in BOOLEAN :
       /\ db' = saveTokenToDB(req[r].pair, ok)
       /\ Step(r, Respond(req[r], IF ok THEN "redirect?success=true"
                                  ELSE ExchangeFailedRedirect, NULL))
  /\ cookie' = <<>>
  /\ UNCHANGED <<nonceUsed, variant, call, result, restarted, now, tokenData, loadPending,
                 issued, refreshFailed, uncaught, started>>

\* await saveTokenToDB(newTokens) of /callback returns; redirect success=true
CallbackSaved(r) ==
  /\ req[r].kind = "callback" /\ req[r].pc = "saving"
  /\ \E ok \in BOOLEAN : db' = saveTokenToDB(req[r].pair, ok)
  /\ Step(r, Respond(req[r], "redirect?success=true", NULL))
  /\ cookie' = <<>>
  /\ UNCHANGED <<nonceUsed, variant, call, result, restarted, now, tokenData, loadPending, issued, refreshFailed,
                 uncaught, started>>

\* ------------------------------------------------- /api/spotify/status

\* the body of the status response
StatusBody ==
  IF variant = "backend"
  THEN [authenticated |-> tokenData # NULL,
        hasRefreshToken |-> (tokenData # NULL /\ tokenData.refresh_token # 0)]
  ELSE [authenticated |-> tokenData # NULL,
        tokenExpires |-> IF tokenData # NULL THEN tokenData.expires_at ELSE 0,
        timeRemaining |-> IF tokenData # NULL
                          THEN (tokenData.expires_at - now) \div 1000 ELSE 0]

\* app.get('/api/spotify/status'); part_000 first reloads a missing pair
StatusRequest(r) ==
  /\ HasLoginRoutes(variant)
  /\ Slot(r)
  /\ LET q == NewReq("status")
     IN  Step(r,
                   IF variant = "part_000" /\ tokenData = NULL
                   THEN [q EXCEPT !.pc = "loading"]
                   ELSE Respond(q, "200", StatusBody))
  /\ UNCHANGED <<nonceUsed, variant, call, result, restarted, now, tokenData, db, loadPending, cookie, issued,
                 refreshFailed, uncaught>>
  /\ started' = started + 1

\* part_000: tokenData = await loadTokenFromDB() of the status route returns
StatusLoaded(r) ==
  /\ req[r].kind = "status" /\ req[r].pc = "loading"
  /\ \E ok \in BOOLEAN :
       LET loaded == loadTokenFromDB(ok)
       IN  /\ tokenData' = loaded
           /\ Step(r, Respond(req[r], "200",
                 [authenticated |-> loaded # NULL,
                  tokenExpires |-> IF loaded # NULL THEN loaded.expires_at ELSE 0,
                  timeRemaining |-> IF loaded # NULL
                                    THEN (loaded.expires_at - now) \div 1000 ELSE 0]))
  /\ UNCHANGED <<nonceUsed, variant, call, result, restarted, now, db, loadPending, cookie, issued, refreshFailed,
                 uncaught, started>>

\* ------------------------------------------------ proxied API routes

\* the fallback to the held refresh token left out
RefreshedTokens_noFallback(data) ==
  [access_token |-> data.access_token,
   refresh_token |-> data.refresh_token,
   expires_at |-> now + data.expires_in * 1000]

\* what refreshAccessToken / checkAndRefreshToken store after a successful
\* refresh: response.data.refresh_token || tokenData.refresh_token
RefreshedTokens(data) ==
  [access_token |-> data.access_token,
   refresh_token |-> IF data.refresh_token # 0 THEN data.refresh_token
                     ELSE tokenData.refresh_token,
   expires_at |-> now + data.expires_in * 1000]

\* building the new pair reads tokenData.refresh_token: a TypeError when
\* tokenData has become null while the exchange was in flight
RefreshThrows(data) == tokenData = NULL /\ data.refresh_token = 0

\* part_002 always keeps the held refresh token
RefreshedTokens_p2(data) ==
  [access_token |-> data.access_token,
   refresh_token |-> tokenData.refresh_token,
   expires_at |-> now + data.expires_in * 1000]

\* backend, part_002: next() and the route handler up to axios.get, which
\* reads tokenData.access_token inside the route's try
RouteCall(q) ==
  IF tokenData' = NULL THEN Respond(q, "500", NULL)
  ELSE [q EXCEPT !.pc = "upstream", !.bearer = tokenData'.access_token]

\* part_000, part_001: the route after checkAndRefreshToken returned
AfterCheck(q) ==
  IF tokenData' = NULL \/ tokenData'.access_token = 0
  THEN Respond(q, "401", NULL)
  ELSE [q EXCEPT !.pc = "upstream", !.bearer = tokenData'.access_token]

\* part_000, part_001: checkAndRefreshToken up to its first await
checkAndRefreshToken(q) ==
  IF tokenData' = NULL THEN AfterCheck(q)
  ELSE IF Expiring(tokenData')
       THEN [q EXCEPT !.pc = "refreshing", !.sentRt = tokenData'.refresh_token]
       ELSE AfterCheck(q)

\* backend: spotifyAuthMiddleware up to its first await
spotifyAuthMiddleware(q) ==
  IF tokenData = NULL \/ tokenData.refresh_token = 0
  THEN Respond(q, "401", NULL)
  ELSE IF tokenData.expires_at = 0 \/ Expiring(tokenData)
       THEN [q EXCEPT !.pc = "refreshing", !.sentRt = tokenData.refresh_token]
       ELSE RouteCall(q)

\* a proxied route of src/backend/server.js receives a request
ApiRequest_backend(r) ==
  /\ variant = "backend"
  /\ Slot(r)
  /\ tokenData' = tokenData
  /\ Step(r, spotifyAuthMiddleware(NewReq("api")))
  /\ started' = started + 1
  /\ UNCHANGED <<nonceUsed, variant, call, result, restarted, now, db, loadPending, cookie, issued, refreshFailed,
                 uncaught>>

\* backend: the refresh exchange of refreshAccessToken answers
RefreshResponse_backend(r) ==
  /\ variant = "backend"
  /\ req[r].kind = "api" /\ req[r].pc = "refreshing"
  /\ \/ /\ issued < MaxTok
        /\ \E withRefresh \in BOOLEAN, e \in ExpiresInChoices :
             LET data == TokenResponse(withRefresh, e)
             IN  IF RefreshThrows(data)
                 THEN /\ tokenData' = tokenData
                      /\ Step(r, Respond(req[r], "401", NULL))
                 ELSE /\ tokenData' = RefreshedTokens(data)
                      /\ Step(r,
                            [req[r] EXCEPT !.pc = "saving", !.got = data.access_token,
                                           !.respRt = data.refresh_token,
                                           !.pair = RefreshedTokens(data)])
        /\ issued' = issued + 1
        /\ UNCHANGED refreshFailed
     \/ /\ Step(r, Respond(req[r], "401", NULL))
        /\ refreshFailed' = TRUE
        /\ UNCHANGED <<tokenData, issued>>
  /\ UNCHANGED <<nonceUsed, variant, call, result, restarted, now, db, loadPending, cookie, uncaught, started>>

\* backend: await saveTokenToDB(newTokens) of refreshAccessToken returns,
\* the middleware calls next() and the route issues the upstream call
RefreshSaved_backend(r) ==
  /\ variant = "backend"
  /\ req[r].kind = "api" /\ req[r].pc = "saving"
  /\ \E ok \in BOOLEAN : db' = saveTokenToDB(req[r].pair, ok)
  /\ tokenData' = tokenData
  /\ Step(r, RouteCall(req[r]))
  /\ UNCHANGED <<nonceUsed, variant, call, result, restarted, now, loadPending, cookie, issued, refreshFailed,
                 uncaught, started>>

\* part_002: spotifyAuthMiddleware has no guard for a missing pair; reading
\* tokenData.expires_at of null rejects the async middleware's promise
ApiRequest_p2(r) ==
  /\ variant = "part_002"
  /\ Slot(r)
  /\ tokenData' = tokenData
  /\ LET q == NewReq("api")
     IN  IF tokenData = NULL
         THEN /\ Step(r, [q EXCEPT !.pc = "hung"])
              /\ uncaught' = TRUE
         ELSE /\ Step(r,
                    IF tokenData.expires_at = 0 \/ Expiring(tokenData)
                    THEN IF tokenData.refresh_token = 0
                         THEN Respond(q, "500", NULL)
                         ELSE [q EXCEPT !.pc = "refreshing",
                                        !.sentRt = tokenData.refresh_token]
                    ELSE RouteCall(q))
              /\ uncaught' = uncaught
  /\ started' = started + 1
  /\ UNCHANGED <<nonceUsed, variant, call, result, restarted, now, db, loadPending, cookie, issued, refreshFailed>>

\* part_002: the refresh exchange answers; nothing is saved
RefreshResponse_p2(r) ==
  /\ variant = "part_002"
  /\ req[r].kind = "api" /\ req[r].pc = "refreshing"
  /\ \/ /\ issued < MaxTok
        /\ \E withRefresh \in BOOLEAN, e \in ExpiresInChoices :
             LET data == TokenResponse(withRefresh, e)
             IN  IF tokenData = NULL
                 THEN /\ tokenData' = tokenData
                      /\ Step(r, Respond(req[r], "500", NULL))
                 ELSE /\ tokenData' = RefreshedTokens_p2(data)
                      /\ Step(r,
                            RouteCall([req[r] EXCEPT !.got = data.access_token,
                                                     !.respRt = data.refresh_token,
                                                     !.pair = RefreshedTokens_p2(data)]))
        /\ issued' = issued + 1
        /\ UNCHANGED refreshFailed
     \/ /\ Step(r, Respond(req[r], "500", NULL))
        /\ refreshFailed' = TRUE
        /\ UNCHANGED <<tokenData, issued>>
  /\ UNCHANGED <<nonceUsed, variant, call, result, restarted, now, db, loadPending, cookie, uncaught, started>>

\* part_000, part_001: a proxied route receives a request; part_000 first
\* reloads a missing pair from the store
ApiRequest_p0(r) ==
  /\ variant \in {"part_000", "part_001"}
  /\ Slot(r)
  /\ tokenData' = tokenData
  /\ LET q == NewReq("api")
     IN  Step(r,
                   IF variant = "part_000" /\ tokenData = NULL
                   THEN [q EXCEPT !.pc = "loading"]
                   ELSE checkAndRefreshToken(q))
  /\ started' = started + 1
  /\ UNCHANGED <<nonceUsed, variant, call, result, restarted, now, db, loadPending, cookie, issued, refreshFailed,
                 uncaught>>

\* part_000: tokenData = await loadTokenFromDB() of a proxied route returns
ApiLoaded_p0(r) ==
  /\ req[r].kind = "api" /\ req[r].pc = "loading"
  /\ \E ok \in BOOLEAN : tokenData' = loadTokenFromDB(ok)
  /\ Step(r, checkAndRefreshToken(Held(req[r], tokenData')))
  /\ UNCHANGED <<nonceUsed, variant, call, result, restarted, now, db, loadPending, cookie, issued, refreshFailed,
                 uncaught, started>>

\* part_000, part_001: the refresh exchange of checkAndRefreshToken answers;
\* the catch sets tokenData = null
RefreshResponse_p0(r) ==
  /\ variant \in {"part_000", "part_001"}
  /\ req[r].kind = "api" /\ req[r].pc = "refreshing"
  /\ \/ /\ issued < MaxTok
        /\ \E withRefresh \in BOOLEAN, e \in ExpiresInChoices :
             LET data == TokenResponse(withRefresh, e)
             IN  IF RefreshThrows(data)
                 THEN /\ tokenData' = NULL
                      /\ Step(r, AfterCheck(req[r]))
                 ELSE /\ tokenData' = RefreshedTokens(data)
                      /\ LET q == [req[r] EXCEPT !.got = data.access_token,
                                                 !.respRt = data.refresh_token,
                                                 !.pair = RefreshedTokens(data)]
                         IN  Step(r,
                                       IF SavesTokens(variant)
                                       THEN [q EXCEPT !.pc = "saving"]
                                       ELSE AfterCheck(q))
        /\ issued' = issued + 1
        /\ UNCHANGED refreshFailed
     \/ /\ tokenData' = NULL
        /\ Step(r, AfterCheck(req[r]))
        /\ refreshFailed' = TRUE
        /\ UNCHANGED issued
  /\ UNCHANGED <<nonceUsed, variant, call, result, restarted, now, db, loadPending, cookie, uncaught, started>>

\* part_000: await saveTokenToDB(tokenData) of checkAndRefreshToken returns
RefreshSaved_p0(r) ==
  /\ variant = "part_000"
  /\ req[r].kind = "api" /\ req[r].pc = "saving"
  /\ \E ok \in BOOLEAN : db' = saveTokenToDB(req[r].pair, ok)
  /\ tokenData' = tokenData
  /\ Step(r, AfterCheck(req[r]))
  /\ UNCHANGED <<nonceUsed, variant, call, result, restarted, now, loadPending, cookie, issued, refreshFailed,
                 uncaught, started>>

\* an upstream failure taken for a dead token: the pair is dropped and the
\* caller sent to log in again
UpstreamResponse_invalidates(r) ==
  /\ req[r].kind = "api" /\ req[r].pc = "upstream"
  /\ \E ok \in BOOLEAN :
       /\ Step(r, Respond(req[r], IF ok THEN "200" ELSE "401", NULL))
       /\ tokenData' = IF ok THEN tokenData ELSE NULL
  /\ UNCHANGED <<nonceUsed, variant, call, result, restarted, now, db, loadPending, cookie,
                 issued, refreshFailed, uncaught, started>>

\* the upstream resource call answers: pass the data through, or 500
UpstreamResponse(r) ==
  /\ req[r].kind = "api" /\ req[r].pc = "upstream"
  /\ \E ok \in BOOLEAN :
       Step(r, Respond(req[r], IF ok THEN "200" ELSE "500", NULL))
  /\ UNCHANGED <<nonceUsed, variant, call, result, restarted, now, tokenData, db, loadPending, cookie, issued,
                 refreshFailed, uncaught, started>>

Next ==
  \/ Tick
  \/ StartupLoad
  \/ Login
  \/ \E r \in Reqs : CallbackRequest(r)
  \/ \E r \in Reqs : CallbackTokenResponse(r)
  \/ \E r \in Reqs : CallbackSaved(r)
  \/ \E r \in Reqs : StatusRequest(r)
  \/ \E r \in Reqs : StatusLoaded(r)
  \/ \E r \in Reqs : ApiRequest_backend(r)
  \/ \E r \in Reqs : RefreshResponse_backend(r)
  \/ \E r \in Reqs : RefreshSaved_backend(r)
  \/ \E r \in Reqs : ApiRequest_p2(r)
  \/ \E r \in Reqs : RefreshResponse_p2(r)
  \/ \E r \in Reqs : ApiRequest_p0(r)
  \/ \E r \in Reqs : ApiLoaded_p0(r)
  \/ \E r \in Reqs : RefreshResponse_p0(r)
  \/ \E r \in Reqs : RefreshSaved_p0(r)
  \/ \E r \in Reqs : UpstreamResponse(r)

Spec == Init /\ [][Next]_vars

\* ------------------------------------------------------------ fairness

\* What the event loop and the MongoDB driver guarantee: a pending store
\* operation returns (the driver has its own server selection and socket
\* timeouts) and its continuation runs.  The axios calls are made without a
\* timeout option (axios' default is 0, no timeout), so nothing guarantees
\* that the token endpoint or the resource API ever answers.
StoreReturns ==
  \/ StartupLoad
  \/ \E r \in Reqs : CallbackSaved(r)
  \/ \E r \in Reqs : StatusLoaded(r)
  \/ \E r \in Reqs : RefreshSaved_backend(r)
  \/ \E r \in Reqs : ApiLoaded_p0(r)
  \/ \E r \in Reqs : RefreshSaved_p0(r)

SpecFair == Init /\ [][Next]_vars /\ WF_vars(StoreReturns)

\* ------------------------------------------------- helpers on their own

\* reading a property of response.data: undefined counts as false, and the
\* empty body of a 204 has no properties
Truthy(data, f) == f \in DOMAIN data /\ data[f]

\* any 200 taken for playing
NowPlayingBody_alwaysTrack(status, data) ==
  IF status = 204 THEN [isPlaying |-> FALSE]
  ELSE [isPlaying |-> TRUE, track |-> data.item]

\* what the now-playing route answers to the upstream response:
\*   backend, part_002: res.json(response.data.is_playing ? {isPlaying: true,
\*     track: response.data.item} : {isPlaying: false})
\*   part_000, part_001: {isPlaying: false} on status 204, otherwise
\*     {isPlaying: response.data.is_playing, track: response.data.item}
NowPlayingBody(status, data) ==
  IF variant \in {"backend", "part_002"}
  THEN IF Truthy(data, "is_playing")
       THEN [isPlaying |-> TRUE, track |-> data.item]
       ELSE [isPlaying |-> FALSE]
  ELSE IF status = 204 THEN [isPlaying |-> FALSE]
       ELSE [isPlaying |-> data.is_playing, track |-> data.item]

\* response.data.item of the provider
Tracks == {"track1", "track2"}

\* what /me/player/currently-playing answers: 204 with an empty body, or 200
\* with the playback state
UpstreamAnswers ==
  {[status |-> 204, data |-> <<>>]} \cup
  {[status |-> 200, data |-> [is_playing |-> p, item |-> t]] :
     p \in BOOLEAN, t \in Tracks}

\* the now-playing route maps an upstream answer
NowPlayingCall ==
  /\ \E a \in UpstreamAnswers :
       /\ call' = [fn |-> "now-playing", status |-> a.status, data |-> a.data]
       /\ result' = NowPlayingBody(a.status, a.data)
  /\ UNCHANGED <<variant, now, tokenData, db, loadPending, cookie, issued, req,
                 refreshFailed, uncaught, started, last, nonceUsed, restarted>>

\* byte values and draws the random sources are sampled at: the ends of the
\* three character ranges, the wrap-around of x % 62 and the largest byte
ByteSample == {0, 25, 26, 51, 52, 61, 62, 255}
DrawSample == {0, 25, 26, 51, 52, 61}

\* generateRandomString(length) with what the random source returned
GenerateCall ==
  /\ HasLoginRoutes(variant)
  /\ \E length \in 0..MaxLen :
       IF variant = "backend"
       THEN \E bytes \in [1..length -> ByteSample] :
              /\ call' = [fn |-> "generate", length |-> length, random |-> bytes]
              /\ result' = generateRandomString(bytes)
       ELSE \E draws \in [1..length -> DrawSample] :
              /\ call' = [fn |-> "generate", length |-> length, random |-> draws]
              /\ result' = generateRandomString_p0(draws)
  /\ UNCHANGED <<variant, now, tokenData, db, loadPending, cookie, issued, req,
                 refreshFailed, uncaught, started, last, nonceUsed, restarted>>

NextHelpers == NowPlayingCall \/ GenerateCall

SpecHelpers == Init /\ [][NextHelpers]_vars

\* --------------------------------------------------- store reachable

\* no store operation fails in this step: a load that returns has read the
\* document, a save that returns has written its pair
StoreUp ==
  /\ (loadPending /\ ~loadPending') => tokenData' = db
  /\ \A r \in Reqs :
       /\ (req[r].pc = "loading" /\ req'[r].pc # "loading") => tokenData' = db
       /\ (req[r].pc = "saving" /\ req'[r].pc # "saving") => db' = req[r].pair

NextStoreUp == Next /\ StoreUp

\* the server with a store that is reachable throughout
SpecStoreUp == Init /\ [][NextStoreUp]_vars

\* ------------------------------------------------------ process restart

\* process.on('SIGINT') exits the process (or it is killed) and it is started
\* again: the module's variables are initialised anew, the requests it was
\* handling are lost, the startup load runs again; the store and the
\* browser's cookie stay
Restart ==
  /\ tokenData' = NULL
  /\ loadPending' = HasStore(variant)
  /\ req' = [r \in Reqs |-> IdleReq]
  /\ restarted' = TRUE
  /\ UNCHANGED <<variant, call, result, now, db, cookie, issued, refreshFailed, uncaught,
                 started, last, nonceUsed>>

NextRestart == Next \/ Restart

SpecRestart == Init /\ [][NextRestart]_vars

\* ------------------------------------------------------------ properties

\* the requests being handled and the one that finished last
AllReqs == {req[r] : r \in Reqs} \cup {last}

\* request r after this step: in its slot, or finished
After(r) == IF req'[r].pc = "idle" THEN last' ELSE req'[r]

\* C1: a /callback whose state parameter is absent or differs from the cookie
\* is answered with the state_mismatch redirect and never reaches the token
\* exchange.
C1_StateMismatchNoExchange ==
  \A q \in AllReqs :
    (q.kind = "callback" /\ (q.state = <<>> \/ q.state # q.stored))
      => /\ q.pc = "done"
         /\ q.resp = "redirect?error=state_mismatch"
         /\ q.got = 0
         /\ q.pair = NULL

\* a forged state met a cookie holding another nonce
C1_Witness ==
  /\ last.kind = "callback"
  /\ last.state # <<>> /\ last.stored # <<>> /\ last.state # last.stored
  /\ last.resp = "redirect?error=state_mismatch"

\* C2: at no time are two refresh exchanges in flight.
C2_SingleFlight ==
  Cardinality({r \in Reqs : req[r].pc = "refreshing"}) <= 1

\* the refresh exchange of request r fails in this step
RefreshFails(r) ==
  /\ req[r].pc = "refreshing" /\ req'[r].pc # "refreshing"
  /\ issued' = issued

\* C3: when a refresh exchange fails, the in-memory pair is cleared and the
\* request is answered 401 (AuthRequired).
C3_FailedRefreshClears ==
  [][\A r \in Reqs :
       RefreshFails(r) => (tokenData' = NULL /\ After(r).resp = "401")]_vars

\* C4: a proxied call that arrives after a failed refresh exchange, with no
\* successful login in between, is answered 401 at once and sends no refresh
\* exchange.
C4_NoRefreshAfterFailure ==
  \A q \in AllReqs :
    (q.kind = "api" /\ q.afterFail)
      => (q.pc = "done" /\ q.resp = "401" /\ q.sentRt = 0 /\ q.bearer = 0)

\* C5: a proxied call whose token check finds no pair held is answered 401
\* and issues no upstream call.
C5_NoPairUnauthorized ==
  \A q \in AllReqs :
    (q.kind = "api" /\ q.pc # "loading" /\ q.start = NULL)
      => (q.pc = "done" /\ q.resp = "401" /\ q.bearer = 0)

\* request r runs its token check in this step: it arrives, or the reload
\* of part_000 returns
TokenCheck(r) ==
  /\ req[r].pc \in {"idle", "loading"}
  /\ After(r).kind = "api" /\ After(r).pc # "loading"
  /\ \/ started' = started + 1 /\ req[r].pc = "idle" /\ Slot(r)
     \/ req[r].pc = "loading" /\ req'[r].pc # "loading"

\* C6: a token check that finds the held pair more than REFRESH_SKEW away
\* from expiry leaves the pair as it is, sends no refresh exchange and goes
\* on to the upstream call with the held access token.
C6_FreshTokenReused ==
  [][\A r \in Reqs :
       (TokenCheck(r) /\ After(r).startFresh)
         => /\ tokenData' = After(r).start
            /\ issued' = issued
            /\ After(r).pc = "upstream"
            /\ After(r).sentRt = 0 /\ After(r).got = 0
            /\ After(r).bearer = After(r).start.access_token]_vars

\* a request found a fresh pair and called upstream with its access token
C6_Witness ==
  \E r \in Reqs :
    /\ req[r].kind = "api" /\ req[r].startFresh /\ req[r].pc = "upstream"
    /\ req[r].bearer = req[r].start.access_token

\* C7: the upstream call of a request whose refresh succeeded carries a token
\* no older than the one that refresh obtained, never the pre-refresh one.
C7_UpstreamCarriesNewToken ==
  \A q \in AllReqs :
    (q.kind = "api" /\ q.got # 0 /\ q.bearer # 0) => q.bearer >= q.got

\* C8: the pair a successful refresh installs holds the refresh token of the
\* response, or the one held until then when the response has none.
C8_RefreshTokenRetained ==
  [][\A r \in Reqs :
       (req[r].pc = "refreshing" /\ issued' = issued + 1 /\ After(r).got = issued + 1)
         => tokenData'.refresh_token =
              IF After(r).respRt # 0 THEN After(r).respRt
              ELSE tokenData.refresh_token]_vars

C10_StatusAfterLogin ==
  [][(/\ last.kind = "callback" /\ last.resp = "redirect?success=true"
      /\ tokenData = last.pair
      /\ started' = started + 1 /\ last'.kind = "status")
       => /\ last.pair.expires_at = last.due
          /\ last'.body.authenticated
          /\ "tokenExpires" \in DOMAIN last'.body
          /\ last'.body.tokenExpires = last.due]_vars

\* the token exchange of callback r fails in this step
ExchangeFails(r) ==
  /\ req[r].kind = "callback" /\ req[r].pc = "exchanging"
  /\ req'[r].pc # "exchanging" /\ issued' = issued

\* C11: when the code-for-token exchange of a callback with matching state
\* fails, the callback is answered with an error redirect and the in-memory
\* pair and the stored pair are left as they were; the callback never holds
\* a pair of its own.
C11_ExchangeFailureInstallsNothing ==
  [][\A r \in Reqs :
       /\ (req[r].pc = "idle" /\ req'[r].kind = "callback")
            => (tokenData' = tokenData /\ db' = db)
       /\ ExchangeFails(r)
            => /\ tokenData' = tokenData /\ db' = db
               /\ last'.kind = "callback" /\ last'.state = req[r].state
               /\ last'.resp \in {"redirect?error=token_exchange_failed",
                                  "redirect?error=invalid_token"}
               /\ last'.pair = NULL /\ last'.got = 0]_vars

\* a callback with matching state failed its exchange while a pair was held
C11_Witness ==
  /\ last.kind = "callback" /\ last.state # <<>> /\ last.state = last.stored
  /\ last.resp \in {"redirect?error=token_exchange_failed",
                    "redirect?error=invalid_token"}
  /\ tokenData # NULL /\ db # NULL

\* a callback arrives at slot r in this step
CallbackArrives(r) ==
  /\ Slot(r) /\ started' = started + 1
  /\ After(r).kind = "callback"

\* the callback at slot r, whose state matched, gets its response in this step
MatchedCallbackEnds(r) ==
  /\ req[r].kind = "callback" /\ req[r].pc \in {"exchanging", "saving"}
  /\ req'[r].pc = "idle"

\* C12: the callback that matches the nonce leaves the cookie cleared whether
\* its exchange succeeds or fails, and a callback that arrives after a
\* callback matched the nonce, with no /login in between, is rejected with
\* state_mismatch.
C12_NonceUsedOnce ==
  [][\A r \in Reqs :
       /\ MatchedCallbackEnds(r) => cookie' = <<>>
       /\ (CallbackArrives(r) /\ nonceUsed)
            => (After(r).pc = "done"
                /\ After(r).resp = "redirect?error=state_mismatch")]_vars

\* request r installs the pair of a successful exchange or refresh in this step
Installs(r) ==
  /\ req[r].pc \in {"exchanging", "refreshing"}
  /\ issued' = issued + 1 /\ After(r).got = issued + 1

\* C13: a callback or refresh that installs a pair goes on to save exactly
\* that pair, and answers only after the save was made.
C13_SavedAfterMutation ==
  [][\A r \in Reqs :
       /\ Installs(r)
            => (req'[r].pc = "saving" /\ req'[r].pair = tokenData')
       /\ (req[r].pc = "saving" /\ req'[r].pc # "saving")
            => db' \in {db, req[r].pair}]_vars

\* C14: the stored document changes only when a save completes, to exactly
\* the pair that request installed; a restart leaves it alone; the startup
\* load after a restart installs the stored pair (or nothing when the store
\* cannot be reached); and a proxied call that then finds this pair fresh
\* goes upstream with its access token, with no login in between.
C14_RestartRoundTrip ==
  [][/\ db' # db
          => \E r \in Reqs : /\ req[r].pc = "saving" /\ db' = req[r].pair
                              /\ req[r].pair.access_token = req[r].got
     /\ (restarted /\ loadPending /\ ~loadPending')
          => (tokenData' \in {db, NULL} /\ db' = db)
     /\ \A r \in Reqs :
          (/\ restarted /\ ~loadPending /\ tokenData = db
           /\ Slot(r) /\ started' = started + 1
           /\ After(r).kind = "api" /\ After(r).startFresh)
            => /\ After(r).pc = "upstream"
               /\ After(r).bearer = db.access_token
               /\ issued' = issued]_vars

\* a pair installed by a callback of the run before the restart was saved,
\* loaded again at startup, and carries a proxied call
C14_Witness ==
  /\ restarted /\ ~loadPending
  /\ last.kind = "callback" /\ last.resp = "redirect?success=true"
  /\ db = last.pair /\ tokenData = db
  /\ \E r \in Reqs : /\ req[r].kind = "api" /\ req[r].pc = "upstream"
                      /\ req[r].start = db /\ req[r].bearer = db.access_token

\* the save request r awaits returns in this step without having stored the
\* pair (the pair is new, so the document differs from it unless it is stored)
SaveFails(r) ==
  /\ req[r].pc = "saving" /\ req'[r].pc # "saving"
  /\ db' # req[r].pair

\* C15: a failed save changes neither the in-memory pair nor the course of
\* the request: the callback still redirects with success=true, the refresh
\* still hands the pair it installed to the upstream call; and a proxied call
\* arriving while memory and store differ works with the in-memory pair.
C15_SaveFailureNotFatal ==
  [][\A r \in Reqs :
       /\ SaveFails(r)
            => /\ tokenData' = tokenData /\ db' = db /\ uncaught' = uncaught
               /\ req[r].kind = "callback"
                    => After(r).resp = "redirect?success=true"
               /\ (req[r].kind = "api" /\ tokenData = req[r].pair)
                    => /\ After(r).pc = "upstream"
                       /\ After(r).bearer = req[r].pair.access_token
       /\ (/\ Slot(r) /\ started' = started + 1 /\ After(r).kind = "api"
           /\ tokenData # NULL /\ tokenData # db)
            => /\ After(r).start = tokenData /\ tokenData' = tokenData
               /\ After(r).bearer \in {0, tokenData.access_token}
               /\ After(r).sentRt \in {0, tokenData.refresh_token}]_vars

\* the save of a callback failed, its pair is held in memory only, and a
\* proxied call went upstream with it
C15_Witness ==
  /\ last.kind = "callback" /\ last.resp = "redirect?success=true"
  /\ db # last.pair /\ tokenData = last.pair
  /\ \E r \in Reqs : /\ req[r].kind = "api" /\ req[r].pc = "upstream"
                      /\ req[r].bearer = last.pair.access_token

\* C16: the startup load installs the stored pair, or nothing when there is
\* no document or the store cannot be reached, and raises nothing; a proxied
\* call whose token check then finds no pair is answered 401.
C16_LoadAbsence ==
  [][/\ (loadPending /\ ~loadPending')
          => /\ tokenData' \in {db, NULL}
             /\ db = NULL => tokenData' = NULL
             /\ uncaught' = uncaught
     /\ \A r \in Reqs :
          (TokenCheck(r) /\ ~loadPending /\ After(r).start = NULL)
            => /\ After(r).pc = "done" /\ After(r).resp = "401"
               /\ After(r).bearer = 0 /\ After(r).sentRt = 0
               /\ uncaught' = uncaught]_vars

\* the status request at slot r takes a step: it arrives, or its reload returns
StatusStep(r) ==
  \/ Slot(r) /\ started' = started + 1 /\ After(r).kind = "status"
  \/ req[r].kind = "status" /\ req[r].pc = "loading" /\ req'[r].pc # "loading"

\* C17: no step of a status request changes the in-memory pair or the stored
\* pair, and a status request sends no refresh exchange.
C17_StatusReadOnly ==
  [][\A r \in Reqs :
       StatusStep(r)
         => /\ tokenData' = tokenData /\ db' = db /\ issued' = issued
            /\ After(r).sentRt = 0 /\ After(r).got = 0]_vars

\* C18: when the refresh exchange a proxied call needs fails, the call is
\* answered 401 and issues no upstream call.
C18_RefreshFailureUnauthorized ==
  [][\A r \in Reqs :
       RefreshFails(r)
         => /\ After(r).kind = "api" /\ After(r).pc = "done"
            /\ After(r).resp = "401" /\ After(r).bearer = 0]_vars

\* the upstream call of request r ends in this step otherwise than with data
UpstreamFails(r) ==
  /\ req[r].kind = "api" /\ req[r].pc = "upstream" /\ req'[r] # req[r]
  /\ After(r).resp # "200"

\* C19: when the upstream call fails, the request is answered 500 without
\* another upstream call or token exchange, and the held pair and the stored
\* pair stay as they are.
C19_UpstreamFailure ==
  [][\A r \in Reqs :
       UpstreamFails(r)
         => /\ req'[r].pc = "idle"
            /\ last'.pc = "done" /\ last'.resp = "500"
            /\ last'.bearer = req[r].bearer /\ last'.sentRt = req[r].sentRt
            /\ tokenData' = tokenData /\ db' = db /\ issued' = issued]_vars

\* an upstream call carrying the held access token failed and was answered 500
C19_Witness ==
  /\ last.kind = "api" /\ last.resp = "500" /\ last.bearer # 0
  /\ tokenData # NULL /\ tokenData.access_token = last.bearer

\* C20: no exception escapes a handler, and a request that has left its
\* handler has got a response.
C20_NoUncaughtException ==
  /\ ~uncaught
  /\ \A q \in AllReqs : q.pc # "hung"
  /\ last.kind # "none" => (last.pc = "done" /\ last.resp # "none")

\* C21: a proxied request that has sent a refresh exchange eventually leaves
\* it, by the answer or by a timeout handled as a failure.
C21_RefreshBounded ==
  \A r \in Reqs :
    (req[r].kind = "api" /\ req[r].pc = "refreshing")
      ~> (req[r].pc # "refreshing")

\* the helper applied last is fn
Called(fn) == "fn" \in DOMAIN call /\ call.fn = fn

\* C22 as stated: the now-playing route answers {isPlaying: false} to an
\* upstream 204 and otherwise the upstream is_playing value together with
\* the track.
C22_NowPlayingWithTrack ==
  Called("now-playing")
    => result = IF call.status = 204 THEN [isPlaying |-> FALSE]
                ELSE [isPlaying |-> call.data.is_playing,
                      track |-> call.data.item]

\* C22 amended: the now-playing route answers {isPlaying: false} to an
\* upstream 204; otherwise isPlaying is the upstream is_playing value, the
\* track is given whenever is_playing is true, and a track that is given is
\* the upstream item.
C22_NowPlaying ==
  Called("now-playing")
    => IF call.status = 204 THEN result = [isPlaying |-> FALSE]
       ELSE /\ result.isPlaying = call.data.is_playing
            /\ call.data.is_playing => "track" \in DOMAIN result
            /\ "track" \in DOMAIN result => result.track = call.data.item

\* the route of src/backend/server.js answered an upstream 204
C22_Witness ==
  /\ Called("now-playing") /\ variant = "backend"
  /\ call.status = 204 /\ result = [isPlaying |-> FALSE]

\* the alphanumeric alphabet
UpperCase ==
  {"A", "B", "C", "D", "E", "F", "G", "H", "I", "J", "K", "L", "M",
   "N", "O", "P", "Q", "R", "S", "T", "U", "V", "W", "X", "Y", "Z"}
LowerCase ==
  {"a", "b", "c", "d", "e", "f", "g", "h", "i", "j", "k", "l", "m",
   "n", "o", "p", "q", "r", "s", "t", "u", "v", "w", "x", "y", "z"}
Digits == {"0", "1", "2", "3", "4", "5", "6", "7", "8", "9"}
Alphanumeric == UpperCase \cup LowerCase \cup Digits

\* C23: generateRandomString(length) returns a string of exactly length
\* characters, each of them one of the 62 alphanumeric characters.
C23_GenerateLength ==
  Called("generate")
    => /\ Len(call.random) = call.length
       /\ Len(result) = call.length
       /\ \A i \in 1..Len(result) : result[i] \in Alphanumeric
       /\ Cardinality(Alphanumeric) = 62

\* a string of the longest length whose first byte lies past the alphabet's
\* length and wraps round
C23_Witness ==
  /\ Called("generate") /\ variant = "backend"
  /\ call.length = MaxLen /\ Len(result) = MaxLen
  /\ call.random[1] = 62 /\ result[1] = "A"

\* the request that arrived at slot r in this step found no pair held
SeesNoPair(r) ==
  \/ /\ After(r).kind = "api" /\ After(r).pc # "loading"
     /\ After(r).start = NULL
  \/ /\ After(r).kind = "status" /\ After(r).pc = "done"
     /\ ~After(r).body.authenticated

\* C24: the startup load resolves before requests are handled: no proxied
\* call or status probe arrives while the load is pending and finds no pair
\* held although the store holds one.
C24_NoEarlyNoToken ==
  [][\A r \in Reqs :
       (/\ Slot(r) /\ started' = started + 1
        /\ After(r).kind \in {"api", "status"}
        /\ loadPending /\ db # NULL)
         => ~SeesNoPair(r)]_vars

\* C25: a callback installs its pair only while no refresh exchange is in
\* flight, and a refresh installs its pair only over the pair whose refresh
\* token it sent, so the installed refresh token is that of the response or
\* the one sent.
C25_InstallsExcludeEachOther ==
  [][\A r \in Reqs :
       /\ (Installs(r) /\ req[r].pc = "exchanging")
            => \A o \in Reqs : req[o].pc # "refreshing"
       /\ (Installs(r) /\ req[r].pc = "refreshing")
            => /\ tokenData # NULL
               /\ tokenData.refresh_token = req[r].sentRt
               /\ tokenData'.refresh_token \in {After(r).respRt, req[r].sentRt}]_vars

\* C26: the expires_at of the held pair changes only in a step in which a
\* callback or a refresh installs the pair of a successful exchange, and is
\* then the time of that step plus expires_in seconds.
C26_ExpiresAtOnlyOnInstall ==
  [][/\ (/\ tokenData # NULL /\ tokenData' # NULL
         /\ tokenData'.expires_at # tokenData.expires_at)
          => \E r \in Reqs : Installs(r) /\ tokenData' = After(r).pair
     /\ \A r \in Reqs :
          (Installs(r) /\ tokenData' = After(r).pair)
            => \E e \in ExpiresInChoices :
                 tokenData'.expires_at = now + e * 1000]_vars

\* C27: when the startup load resolves while the pair a callback installed
\* is held, that pair stays.
C27_LoadKeepsCallbackPair ==
  [][(/\ loadPending /\ ~loadPending'
      /\ tokenData # NULL
      /\ \E q \in AllReqs : q.kind = "callback" /\ q.pair = tokenData)
       => tokenData' = tokenData]_vars

\* C28: when a refresh exchange fails while the held pair is the one that an
\* overlapping refresh of the same pair installed, that pair stays held.
C28_FailureKeepsRefreshedPair ==
  [][\A r \in Reqs :
       (/\ RefreshFails(r)
        /\ tokenData # NULL
        /\ \E q \in AllReqs : /\ q.kind = "api" /\ q.got # 0
                               /\ q.pair = tokenData
                               /\ q.sentRt = req[r].sentRt)
         => tokenData' = tokenData]_vars

\* nothing is in flight: no request is being handled and the startup load
\* has resolved
Quiescent == ~loadPending /\ \A r \in Reqs : req[r].pc = "idle"

\* C29: with a reachable store, whenever nothing is in flight the stored
\* pair equals the in-memory pair, and a save never replaces the stored pair
\* by an older one.
C29_StoreEqualsMemory ==
  /\ (HasStore(variant) /\ Quiescent) => db = tokenData
  /\ \A q \in AllReqs :
       (q.pc = "done" /\ q.pair # NULL /\ db # NULL /\ SavesTokens(variant))
         => db.access_token >= q.pair.access_token

\* C30: when a callback sends the success redirect it has installed its
\* pair and, where the copy saves, its save has returned; and the pair held
\* at that moment is the one it installed.
C30_SuccessAfterInstall ==
  [][\A r \in Reqs :
       (/\ req[r].kind = "callback" /\ req[r].pc # "idle" /\ req'[r].pc = "idle"
        /\ last'.resp = "redirect?success=true")
         => /\ last'.pair # NULL /\ last'.got = last'.pair.access_token
            /\ SavesTokens(variant) => req[r].pc = "saving"
            /\ tokenData' = last'.pair]_vars

====
